---- MODULE Spec2Model ----
(***************************************************************************)
(* Controlled gates of cirq-core: construction (validation, flattening),   *)
(* application to qudits, exponentiation, parameter resolution and the     *)
(* ordered-fallback decomposition of cirq/ops/controlled_gate.py.          *)
(*                                                                         *)
(* Values are records.  A gate is either a base gate                       *)
(*   [kind |-> "base", name, exp]                                          *)
(* or a ControlledGate entity                                              *)
(*   [kind |-> "controlled", sub_gate, control_values, control_qid_shape]. *)
(* Optional arguments are sequences: <<>> is None, <<v>> is the value v.   *)
(***************************************************************************)
EXTENDS Integers, Sequences, FiniteSets, TLC

\* Largest number of controls of an entity: a constructor call is given at
\* most as many controls as its sub-gate leaves room for.
MaxControls == 2

\* Largest number of times a decomposition result is decomposed again.
MaxChain == 3

VARIABLES
    gate,   \* the entity the client holds, or NoGate
    pc,     \* "idle", or "returned" after a call
    res,    \* the last call: its arguments and what it returned
    chain   \* how many times the client has decomposed a result again

vars == <<gate, pc, res, chain>>

---------------------------------------------------------------------------
\* Python values

NoneVal == <<>>

Some(v) == <<v>>

NotImplemented == [kind |-> "NotImplemented"]

ValueError(msg) == [kind |-> "ValueError", msg |-> msg]

IsError(x) == x.kind = "ValueError"

NoGate == [kind |-> "NoGate"]

\* An OP_TREE returned by a decomposition: its operations in order.
OpTree(ops) == [kind |-> "op_tree", ops |-> ops]

\* (x,) * n, which is the empty tuple for n <= 0
Repeat(x, n) == [i \in 1..n |-> x]

\* t[:n] and t[n:] for 0 <= n
Take(t, n) == SubSeq(t, 1, IF n < Len(t) THEN n ELSE Len(t))

Drop(t, n) == SubSeq(t, (IF n < Len(t) THEN n ELSE Len(t)) + 1, Len(t))

\* All tuples of length n over the set S.
Tuples(S, n) == [1..n -> S]

---------------------------------------------------------------------------
\* Control-Value Model (cirq.ops.control_values).  A control-value object is
\*   [tag |-> "ProductOfSums", sums |-> <<S1, ..., Sn>>, conj |-> {}]  or
\*   [tag |-> "SumOfProducts", sums |-> <<>>, conj |-> {t1, ..., tk}]
\* (each t a tuple of one value per control).  A raw sequence given to the
\* constructor has tag "raw"; an omitted argument has tag "None".

NoCV == [tag |-> "None", sums |-> <<>>, conj |-> {}]

RawCV(sums) == [tag |-> "raw", sums |-> sums, conj |-> {}]

ProductOfSums(sums) == [tag |-> "ProductOfSums", sums |-> sums, conj |-> {}]

SumOfProducts(conj) == [tag |-> "SumOfProducts", sums |-> <<>>, conj |-> conj]

IsAbstractControlValues(v) == v.tag \in {"ProductOfSums", "SumOfProducts"}

\* num_qubits(): the number of control qudits the object speaks about.
CVNumQubits(v) ==
    IF v.tag = "SumOfProducts"
    THEN (IF v.conj = {} THEN 0 ELSE Len(CHOOSE t \in v.conj : TRUE))
    ELSE Len(v.sums)

\* validate(qid_shape): TRUE iff every accepted value of qudit i is in
\* [0, qid_shape[i]).
CVValidate(v, shape) ==
    IF v.tag = "SumOfProducts"
    THEN \A t \in v.conj : \A i \in 1..Len(t) :
            i <= Len(shape) => (0 <= t[i] /\ t[i] < shape[i])
    ELSE \A i \in 1..Len(v.sums) :
            i <= Len(shape) => \A x \in v.sums[i] : (0 <= x /\ x < shape[i])

\* expand(): all assignments of the control qudits that enable the sub-gate.
CVExpand(v) ==
    IF v.tag = "SumOfProducts"
    THEN v.conj
    ELSE {t \in Tuples(UNION {v.sums[i] : i \in 1..Len(v.sums)}, Len(v.sums)) :
            \A i \in 1..Len(v.sums) : t[i] \in v.sums[i]}

\* A & B: independent conditions over the concatenation of the qudit ranges.
CVAnd(a, b) ==
    IF a.tag = "ProductOfSums" /\ b.tag = "ProductOfSums"
    THEN ProductOfSums(a.sums \o b.sums)
    ELSE SumOfProducts({x \o y : x \in CVExpand(a), y \in CVExpand(b)})

\* is_trivial: every control accepts exactly {1}.
CVIsTrivial(v) ==
    /\ v.tag = "ProductOfSums"
    /\ \A i \in 1..Len(v.sums) : v.sums[i] = {1}

---------------------------------------------------------------------------
\* Base gates: the capability protocols the controlled gate consumes.

Base(name) == [kind |-> "base", name |-> name, exp |-> 1]

BaseNames ==
    {"GlobalPhase", "Rot", "Rot3", "Two", "Comp", "Nat", "Sym", "Measure", "Channel"}

BaseGates == {Base(n) : n \in BaseNames}

IsControlledGate(g) == g.kind = "controlled"

SubName(g) == IF g.kind = "base" THEN g.name ELSE "controlled"

\* protocols.qid_shape of a base gate
BaseQidShape(g) ==
    CASE SubName(g) = "GlobalPhase" -> <<>>
      [] SubName(g) = "Rot3" -> <<3>>
      [] SubName(g) = "Two" -> <<2, 2>>
      [] OTHER -> <<2>>

RECURSIVE HasUnitary(_), HasMixture(_), IsParameterized(_)

\* protocols.is_measurement
IsMeasurement(g) == g.kind = "base" /\ g.name = "Measure"

\* protocols.has_unitary; a ControlledGate mirrors its sub-gate (_has_unitary_)
HasUnitary(g) ==
    IF IsControlledGate(g) THEN HasUnitary(g.sub_gate)
    ELSE SubName(g) \in {"GlobalPhase", "Rot", "Rot3", "Two", "Comp", "Nat"}

\* protocols.has_mixture; a ControlledGate mirrors its sub-gate (_has_mixture_)
HasMixture(g) ==
    IF IsControlledGate(g) THEN HasMixture(g.sub_gate)
    ELSE SubName(g) \in {"GlobalPhase", "Rot", "Rot3", "Two", "Comp", "Nat", "Measure"}

\* protocols.is_parameterized; a ControlledGate mirrors its sub-gate
IsParameterized(g) ==
    IF IsControlledGate(g) THEN IsParameterized(g.sub_gate)
    ELSE SubName(g) = "Sym"

\* protocols.pow(sub_gate, exponent, NotImplemented)
ProtocolPow(g, exponent) ==
    IF g.kind = "base" /\ g.name \in {"GlobalPhase", "Rot", "Rot3", "Comp", "Nat"}
    THEN [g EXCEPT !.exp = g.exp * exponent]
    ELSE NotImplemented

\* protocols.resolve_parameters(sub_gate, resolver, recursive): the resolver
\* either binds the symbol of "Sym" (giving "Rot") or does not.
ProtocolResolve(g, binds) ==
    IF g.kind = "base" /\ g.name = "Sym" /\ binds THEN Base("Rot") ELSE g

---------------------------------------------------------------------------
\* ControlledGate

\* _validate_sub_object
ValidateSubObject(sub_object) ==
    IF IsMeasurement(sub_object)
    THEN ValueError("Cannot control measurement")
    ELSE IF ~HasMixture(sub_object) /\ ~IsParameterized(sub_object)
    THEN ValueError("Cannot control channel with non-unitary operators")
    ELSE NoGate

\* Flatten with the inner controls put before the outer ones.
FlattenInnerFirst(sub_gate, control_values, control_qid_shape) ==
    IF IsControlledGate(sub_gate)
    THEN [kind |-> "controlled",
          sub_gate |-> sub_gate.sub_gate,
          control_values |-> CVAnd(sub_gate.control_values, control_values),
          control_qid_shape |-> sub_gate.control_qid_shape \o control_qid_shape]
    ELSE [kind |-> "controlled",
          sub_gate |-> sub_gate,
          control_values |-> control_values,
          control_qid_shape |-> control_qid_shape]

\* Flatten that merges the controls but keeps the intermediate wrapper.
FlattenKeepWrapper(sub_gate, control_values, control_qid_shape) ==
    IF IsControlledGate(sub_gate)
    THEN [kind |-> "controlled",
          sub_gate |-> sub_gate,
          control_values |-> CVAnd(control_values, sub_gate.control_values),
          control_qid_shape |-> control_qid_shape \o sub_gate.control_qid_shape]
    ELSE [kind |-> "controlled",
          sub_gate |-> sub_gate,
          control_values |-> control_values,
          control_qid_shape |-> control_qid_shape]

\* The flattening step of __init__ (lines 115-121).
Flatten(sub_gate, control_values, control_qid_shape) ==
    IF IsControlledGate(sub_gate)
    THEN [kind |-> "controlled",
          sub_gate |-> sub_gate.sub_gate,
          control_values |-> CVAnd(control_values, sub_gate.control_values),
          control_qid_shape |-> control_qid_shape \o sub_gate.control_qid_shape]
    ELSE [kind |-> "controlled",
          sub_gate |-> sub_gate,
          control_values |-> control_values,
          control_qid_shape |-> control_qid_shape]

\* The bounds check left out.
ValidatedControlsSkipped(values, shape) == TRUE

\* Line 113: self._control_values.validate(self.control_qid_shape)
ValidatedControls(values, shape) == CVValidate(values, shape)

\* Lines 101-107: the two length checks against num_controls.
NumControlsMatch(n, m) == n = m

\* ControlledGate.__init__: the entity, or the ValueError it raises.
ControlledGate(sub_gate, num_controls, control_values, control_qid_shape) ==
    LET checked == ValidateSubObject(sub_gate)
        \* Simplify a single SumOfProducts: its only conjunction, a tuple of
        \* ints, which ProductOfSums later reads as one-value sets.
        cv1 == IF control_values.tag = "SumOfProducts"
                  /\ Cardinality(control_values.conj) = 1
               THEN LET c == CHOOSE t \in control_values.conj : TRUE
                    IN  RawCV([i \in 1..Len(c) |-> {c[i]}])
               ELSE control_values
        n == IF num_controls # NoneVal THEN num_controls[1]
             ELSE IF cv1.tag # "None"
                  THEN (IF IsAbstractControlValues(cv1)
                        THEN CVNumQubits(cv1) ELSE Len(cv1.sums))
             ELSE IF control_qid_shape # NoneVal THEN Len(control_qid_shape[1])
             ELSE 1
        cv2 == IF cv1.tag = "None" THEN RawCV(Repeat({1}, n)) ELSE cv1
        cv3 == IF ~IsAbstractControlValues(cv2) THEN ProductOfSums(cv2.sums) ELSE cv2
        shape == IF control_qid_shape = NoneVal THEN Repeat(2, n)
                 ELSE control_qid_shape[1]
    IN  IF IsError(checked) THEN checked
        ELSE IF ~NumControlsMatch(n, CVNumQubits(cv3))
        THEN ValueError("cirq.num_qubits(control_values) != num_controls")
        ELSE IF ~NumControlsMatch(n, Len(shape))
        THEN ValueError("len(control_qid_shape) != num_controls")
        ELSE IF ~ValidatedControls(cv3, shape)
        THEN ValueError("Control values out of bounds")
        ELSE Flatten(sub_gate, cv3, shape)

\* num_controls()
NumControls(g) == Len(g.control_qid_shape)

\* protocols.qid_shape of any gate; _qid_shape_ of a ControlledGate
RECURSIVE QidShape(_)
QidShape(g) ==
    IF IsControlledGate(g) THEN g.control_qid_shape \o QidShape(g.sub_gate)
    ELSE BaseQidShape(g)

\* _value_equality_values_
ValueEqualityValues(g) ==
    <<g.sub_gate, NumControls(g), g.control_values, g.control_qid_shape>>

\* value equality (@value.value_equality): same class, equal values
GateEq(a, b) ==
    /\ IsControlledGate(a)
    /\ IsControlledGate(b)
    /\ ValueEqualityValues(a) = ValueEqualityValues(b)

---------------------------------------------------------------------------
\* Operations on an entity

\* A qudit: LineQid(x, dimension)
LineQid(x, d) == [x |-> x, dimension |-> d]

Op(g, qubits) == [kind |-> "op", gate |-> g, qubits |-> qubits]

ControlledOperation(controls, sub_operation, control_values) ==
    [kind |-> "controlled_op", controls |-> controls,
     sub_operation |-> sub_operation, control_values |-> control_values]

\* Gate.validate_args: exactly as many qudits as the gate acts on.
ValidateArgs(g, qubits) == Len(qubits) = Len(QidShape(g))

\* on without the check for an empty application.
OnUnchecked(self, qubits) ==
    IF ~ValidateArgs(self, qubits)
    THEN ValueError("Wrong number of qubits")
    ELSE ControlledOperation(Take(qubits, NumControls(self)),
                             Op(self.sub_gate, Drop(qubits, NumControls(self))),
                             self.control_values)

\* ControlledGate.on
On(self, qubits) ==
    IF Len(qubits) = 0
    THEN ValueError("Applied a gate to an empty set of qubits")
    ELSE IF ~ValidateArgs(self, qubits)
    THEN ValueError("Wrong number of qubits")
    ELSE ControlledOperation(Take(qubits, NumControls(self)),
                             Op(self.sub_gate, Drop(qubits, NumControls(self))),
                             self.control_values)

\* __pow__ that passes on the number of controls only.
PowDefaultControls(self, exponent) ==
    LET new_sub_gate == ProtocolPow(self.sub_gate, exponent)
    IN  IF new_sub_gate = NotImplemented THEN NotImplemented
        ELSE ControlledGate(new_sub_gate, Some(NumControls(self)), NoCV, NoneVal)

\* ControlledGate.__pow__
Pow(self, exponent) ==
    LET new_sub_gate == ProtocolPow(self.sub_gate, exponent)
    IN  IF new_sub_gate = NotImplemented THEN NotImplemented
        ELSE ControlledGate(new_sub_gate, Some(NumControls(self)),
                            self.control_values, Some(self.control_qid_shape))

\* ControlledGate._resolve_parameters_
ResolveParameters(self, binds) ==
    LET new_sub_gate == ProtocolResolve(self.sub_gate, binds)
    IN  ControlledGate(new_sub_gate, Some(NumControls(self)),
                       self.control_values, Some(self.control_qid_shape))

---------------------------------------------------------------------------
\* Decomposition

\* Gate.controlled of the sub-gate: its specialised controlled form when it
\* has one ("Nat", for controls that all accept {1} on two-level qudits),
\* the gate itself for zero controls, the generic wrapper otherwise.
GateControlled(g, num_controls, control_values, control_qid_shape) ==
    IF num_controls = 0 THEN g
    ELSE IF SubName(g) = "Nat" /\ g.exp = 1 /\ CVIsTrivial(control_values)
            /\ \A i \in 1..Len(control_qid_shape) : control_qid_shape[i] = 2
    THEN [kind |-> "native", name |-> "CNat", exp |-> g.exp,
          num_controls |-> num_controls]
    ELSE ControlledGate(g, Some(num_controls), control_values,
                        Some(control_qid_shape))

\* protocols.decompose_once_with_qubits(sub_gate, qubits, NotImplemented,
\* context=context.extracting_global_phases()): "Comp" decomposes into a
\* global phase and a rotation, "Nat" into a rotation; no other base gate
\* decomposes.
DecomposeOnce(g, qubits) ==
    IF SubName(g) = "Comp"
    THEN OpTree(<<Op([Base("GlobalPhase") EXCEPT !.exp = g.exp], <<>>),
                  Op([Base("Rot") EXCEPT !.exp = g.exp], qubits)>>)
    ELSE IF SubName(g) = "Nat"
    THEN OpTree(<<Op([Base("Rot") EXCEPT !.exp = g.exp], qubits)>>)
    ELSE NotImplemented

\* op.controlled_by(*controls, control_values=control_values)
ControlledBy(op, controls, control_values) ==
    IF Len(controls) = 0 THEN op
    ELSE ControlledOperation(controls, op, control_values)

\* np.angle(protocols.unitary(sub_gate)[0, 0]), in units of the phase angle
\* theta of Base("GlobalPhase")
PhaseAngle(g) == IF g.kind = "base" THEN g.exp ELSE 0

RECURSIVE Product(_)
Product(shape) ==
    IF Len(shape) = 0 THEN 1
    ELSE Product(Take(shape, Len(shape) - 1)) * shape[Len(shape)]

\* The position of rads[hot] were the array flattened column-major.
RECURSIVE FlatIndexColumnMajor(_, _)
FlatIndexColumnMajor(hot, shape) ==
    IF Len(hot) = 0 THEN 0
    ELSE hot[1] + shape[1] * FlatIndexColumnMajor(Tail(hot), Tail(shape))

\* The position of rads[hot] in rads.flatten() (row-major), from 0.
RECURSIVE FlatIndex(_, _)
FlatIndex(hot, shape) ==
    IF Len(hot) = 0 THEN 0
    ELSE FlatIndex(Take(hot, Len(hot) - 1), Take(shape, Len(hot) - 1))
            * shape[Len(hot)] + hot[Len(hot)]

\* rads = np.zeros(shape); for hot in expand(): rads[hot] = angle;
\* [*rads.flatten()]
DiagAngles(shape, control_values, angle) ==
    LET hots == {FlatIndex(hot, shape) : hot \in CVExpand(control_values)}
    IN  [k \in 1..Product(shape) |-> IF (k - 1) \in hots THEN angle ELSE 0]

DiagonalGate(angles) == [kind |-> "DiagonalGate", diag_angles_radians |-> angles]

XOp(q) == Op([kind |-> "X"], <<q>>)

\* invert_ops with a flip for every control that does not accept exactly {1}.
RECURSIVE InvertOpsNotOne(_, _, _)
InvertOpsNotOne(sums, cqubits, i) ==
    IF i > Len(sums) \/ i > Len(cqubits) THEN <<>>
    ELSE (IF sums[i] # {1} THEN <<XOp(cqubits[i])>> ELSE <<>>)
            \o InvertOpsNotOne(sums, cqubits, i + 1)

\* The loop of lines 182-186 over zip(control_values, qubits[:num_controls]),
\* from position i on: the X operations appended to invert_ops ...
RECURSIVE InvertOps(_, _, _)
InvertOps(sums, cqubits, i) ==
    IF i > Len(sums) \/ i > Len(cqubits) THEN <<>>
    ELSE (IF sums[i] = {0} THEN <<XOp(cqubits[i])>> ELSE <<>>)
            \o InvertOps(sums, cqubits, i + 1)

\* control_qubits with the controls on 0 removed as well.
RECURSIVE RemainingControlsOnOne(_, _, _)
RemainingControlsOnOne(sums, cqubits, i) ==
    IF i > Len(cqubits) THEN <<>>
    ELSE (IF i <= Len(sums) /\ sums[i] \in {{0, 1}, {0}} THEN <<>> ELSE <<cqubits[i]>>)
            \o RemainingControlsOnOne(sums, cqubits, i + 1)

\* ... and the qudits left in control_qubits after control_qubits.remove.
RECURSIVE RemainingControls(_, _, _)
RemainingControls(sums, cqubits, i) ==
    IF i > Len(cqubits) THEN <<>>
    ELSE (IF i <= Len(sums) /\ sums[i] = {0, 1} THEN <<>> ELSE <<cqubits[i]>>)
            \o RemainingControls(sums, cqubits, i + 1)

\* controlled_gate_decomposition.decompose_multi_controlled_rotation(
\*     matrix, controls, target): the primitive's output, kept opaque.
DecomposeMultiControlledRotation(sub_gate, controls, target) ==
    <<[kind |-> "mcr", matrix |-> sub_gate, controls |-> controls,
       target |-> target]>>

\* Lines 170-193: the brute-force branch on the unitary.
BruteForce(self, qubits) ==
    IF HasUnitary(self.sub_gate) /\ \A i \in 1..Len(qubits) : qubits[i].dimension = 2
    THEN LET n_qubits == Len(QidShape(self.sub_gate))
         IN  IF n_qubits = 0
             THEN OpTree(<<Op(DiagonalGate(DiagAngles(self.control_qid_shape,
                                                      self.control_values,
                                                      PhaseAngle(self.sub_gate))),
                              qubits)>>)
             ELSE IF n_qubits = 1 /\ self.control_values.tag = "ProductOfSums"
             THEN LET cq == Take(qubits, NumControls(self))
                      invert_ops == InvertOps(self.control_values.sums, cq, 1)
                      control_qubits ==
                          RemainingControls(self.control_values.sums, cq, 1)
                  IN  OpTree(invert_ops
                        \o DecomposeMultiControlledRotation(
                               self.sub_gate, control_qubits, qubits[Len(qubits)])
                        \o invert_ops)
             ELSE NotImplemented
    ELSE NotImplemented

\* The sub-gate's controlled version taken without comparing it to self.
PreferAlways(self, controlled_sub_gate) == TRUE

\* Line 149: prefer the sub-gate's controlled version if it is another gate.
PreferControlledSubGate(self, controlled_sub_gate) ==
    ~GateEq(self, controlled_sub_gate)

\* Lines 161-167: every operation of the sub-gate's decomposition, controlled.
WrapResult(self, result, qubits) ==
    OpTree([k \in 1..Len(result.ops) |->
        ControlledBy(result.ops[k], Take(qubits, NumControls(self)),
                     self.control_values)])

\* _decompose_with_context_ that tries the unitary before the sub-gate's own
\* decomposition.
DecomposeBruteForceFirst(self, qubits) ==
    LET controlled_sub_gate ==
            GateControlled(self.sub_gate, NumControls(self),
                           self.control_values, self.control_qid_shape)
        result == DecomposeOnce(self.sub_gate, Drop(qubits, NumControls(self)))
    IN  IF PreferControlledSubGate(self, controlled_sub_gate)
        THEN OpTree(<<Op(controlled_sub_gate, qubits)>>)
        ELSE IF BruteForce(self, qubits) # NotImplemented
        THEN BruteForce(self, qubits)
        ELSE IF result # NotImplemented
        THEN WrapResult(self, result, qubits)
        ELSE NotImplemented

\* ControlledGate._decompose_with_context_: a sequence of operations, or
\* NotImplemented.
DecomposeWithContext(self, qubits) ==
    LET controlled_sub_gate ==
            GateControlled(self.sub_gate, NumControls(self),
                           self.control_values, self.control_qid_shape)
        result == DecomposeOnce(self.sub_gate, Drop(qubits, NumControls(self)))
    IN  IF PreferControlledSubGate(self, controlled_sub_gate)
        THEN OpTree(<<Op(controlled_sub_gate, qubits)>>)
        ELSE IF result # NotImplemented
        THEN WrapResult(self, result, qubits)
        ELSE BruteForce(self, qubits)

---------------------------------------------------------------------------
\* The inputs a client gives.

\* The accepted-value sets of one control (none of them empty).
AcceptedSets == {{0}, {1}, {0, 1}, {2}}

\* The conjunctions of a SumOfProducts over n controls: the binary
\* assignments, and 2 on every control (in range on three-level controls only).
ConjTuples(n) == Tuples({0, 1}, n) \cup {Repeat(2, n)}

\* Qudit dimensions.
Dimensions == {2, 3}

Exponents == {-1}

SumsInputs(m) == UNION {Tuples(AcceptedSets, n) : n \in 0..m}

ConjInputs(m) ==
    UNION {{c \in SUBSET ConjTuples(n) : Cardinality(c) \in {1, 2}} :
            n \in 1..m}

\* The control_values, num_controls and control_qid_shape arguments of a
\* constructor call, each of at most m controls.
ControlValuesInputs(m) ==
    {NoCV} \cup {RawCV(t) : t \in SumsInputs(m)}
           \cup {ProductOfSums(t) : t \in SumsInputs(m)}
           \cup {SumOfProducts(c) : c \in ConjInputs(m)}

NumControlsInputs(m) == {NoneVal} \cup {Some(n) : n \in 0..m}

ShapeInputs(m) ==
    {NoneVal} \cup {Some(t) : t \in UNION {Tuples(Dimensions, n) : n \in 0..m}}

\* line_qubit.LineQid.for_gate(g), the line numbered from first by step.
LineQids(shape, first, step) ==
    [i \in 1..Len(shape) |-> LineQid(first + (i - 1) * step, shape[i])]

\* The qudit sequences a gate is applied to: the gate's own line in either
\* direction, each prefix of it, and the line with one more qudit.
QubitInputs(g) ==
    LET shape == QidShape(g)
    IN  {LineQids(shape, 0, 1), LineQids(shape, Len(shape), -1)}
          \cup {Take(LineQids(shape, 0, 1), k) : k \in 0..Len(shape)}
          \cup {LineQids(shape \o <<2>>, 0, 1)}

---------------------------------------------------------------------------
\* The client: it holds at most one entity and makes one call at a time.

Idle == [op |-> "none"]

Init ==
    /\ gate = NoGate
    /\ pc = "idle"
    /\ res = Idle
    /\ chain = 0

Call(r) ==
    /\ pc' = "returned"
    /\ res' = r
    /\ UNCHANGED <<gate, chain>>

ConstructCall(sub_gate, n, v, s) ==
    Call([op |-> "construct", sub_gate |-> sub_gate, num_controls |-> n,
          control_values |-> v, control_qid_shape |-> s,
          out |-> ControlledGate(sub_gate, n, v, s)])

\* cirq.ControlledGate(base_gate, ...)
Construct ==
    /\ pc = "idle"
    /\ gate = NoGate
    /\ \E sub_gate \in BaseGates, n \in NumControlsInputs(MaxControls),
          v \in ControlValuesInputs(MaxControls), s \in ShapeInputs(MaxControls) :
            ConstructCall(sub_gate, n, v, s)

\* cirq.ControlledGate(entity, ...)
Wrap ==
    /\ pc = "idle"
    /\ IsControlledGate(gate)
    /\ NumControls(gate) < MaxControls
    /\ LET m == MaxControls - NumControls(gate)
       IN  \E n \in NumControlsInputs(m), v \in ControlValuesInputs(m),
              s \in ShapeInputs(m) :
                ConstructCall(gate, n, v, s)

\* entity ** exponent
PowCall ==
    /\ pc = "idle"
    /\ IsControlledGate(gate)
    /\ \E e \in Exponents :
            Call([op |-> "pow", self |-> gate, exponent |-> e, out |-> Pow(gate, e)])

\* cirq.resolve_parameters(entity, resolver)
ResolveCall ==
    /\ pc = "idle"
    /\ IsControlledGate(gate)
    /\ \E binds \in BOOLEAN :
            Call([op |-> "resolve", self |-> gate, binds |-> binds,
                  out |-> ResolveParameters(gate, binds)])

\* entity.on(*qubits)
OnCall ==
    /\ pc = "idle"
    /\ IsControlledGate(gate)
    /\ \E qubits \in QubitInputs(gate) :
            Call([op |-> "on", self |-> gate, qubits |-> qubits,
                  out |-> On(gate, qubits)])

\* cirq.decompose_once(entity.on(*qubits)): the qudits are the entity's own
DecomposeCall ==
    /\ pc = "idle"
    /\ IsControlledGate(gate)
    /\ \E qubits \in {LineQids(QidShape(gate), 0, 1),
                      LineQids(QidShape(gate), Len(QidShape(gate)), -1)} :
            Call([op |-> "decompose", self |-> gate, qubits |-> qubits,
                  out |-> DecomposeWithContext(gate, qubits)])

\* The client keeps the entity a call returned.
Keep ==
    /\ pc = "returned"
    /\ res.op \in {"construct", "pow", "resolve"}
    /\ IsControlledGate(res.out)
    /\ gate' = res.out
    /\ pc' = "idle"
    /\ res' = Idle
    /\ chain' = 0

\* The client goes on with the entity it had.
Continue ==
    /\ pc = "returned"
    /\ pc' = "idle"
    /\ res' = Idle
    /\ chain' = 0
    /\ UNCHANGED gate

\* The gate of an operation of a decomposition; ControlledOperation.gate
\* wraps the sub-operation's gate with the operation's own controls.
OperationGate(op) ==
    IF op.kind = "controlled_op"
    THEN ControlledGate(op.sub_operation.gate, NoneVal, op.control_values,
                        Some([i \in 1..Len(op.controls) |-> op.controls[i].dimension]))
    ELSE IF op.kind = "op" THEN op.gate
    ELSE [kind |-> op.kind]

\* A decomposition result that holds no controlled gate to decompose again.
Terminal(out) ==
    \/ out = NotImplemented
    \/ /\ out.kind = "op_tree"
       /\ \A k \in 1..Len(out.ops) : ~IsControlledGate(OperationGate(out.ops[k]))

\* cirq.decompose goes on with an operation of the result: the client takes
\* that operation's gate, a ControlledGate, to decompose it again.
Follow ==
    /\ pc = "returned"
    /\ res.op = "decompose"
    /\ res.out.kind = "op_tree"
    /\ chain < MaxChain
    /\ \E k \in 1..Len(res.out.ops) :
            /\ IsControlledGate(OperationGate(res.out.ops[k]))
            /\ gate' = OperationGate(res.out.ops[k])
    /\ pc' = "idle"
    /\ res' = Idle
    /\ chain' = chain + 1

\* The client lets go of its entity.
Release ==
    /\ pc = "idle"
    /\ gate # NoGate
    /\ gate' = NoGate
    /\ chain' = 0
    /\ UNCHANGED <<pc, res>>

Next ==
    \/ Construct
    \/ Wrap
    \/ PowCall
    \/ ResolveCall
    \/ OnCall
    \/ DecomposeCall
    \/ Keep
    \/ Continue
    \/ Release
    \/ Follow

Spec == Init /\ [][Next]_vars

\* Repeated decomposition alone: cirq.decompose on a constructed entity, which
\* decomposes, takes an operation of the result and decomposes it again until
\* nothing is left to decompose.  The loop runs as long as it can.
InitDecompose ==
    /\ gate \in {g \in {ControlledGate(b, n, v, s) :
                            b \in BaseGates, n \in NumControlsInputs(MaxControls),
                            v \in ControlValuesInputs(MaxControls),
                            s \in ShapeInputs(MaxControls)} :
                    IsControlledGate(g)}
    /\ pc = "idle"
    /\ res = Idle
    /\ chain = 0

NextDecompose ==
    \/ DecomposeCall
    \/ Follow

SpecDecompose ==
    InitDecompose /\ [][NextDecompose]_vars /\ WF_vars(NextDecompose)

---------------------------------------------------------------------------
\* Properties

Returned(op) == pc = "returned" /\ res.op = op

\* The number of controls a control_values argument speaks about.
GivenCount(v) ==
    IF v.tag = "SumOfProducts" THEN Len(CHOOSE t \in v.conj : TRUE) ELSE Len(v.sums)

\* The declared, else inferred, num_controls of a constructor call r.
DeclaredOrInferred(r) ==
    IF r.num_controls # NoneVal THEN r.num_controls[1]
    ELSE IF r.control_values.tag # "None" THEN GivenCount(r.control_values)
    ELSE IF r.control_qid_shape # NoneVal THEN Len(r.control_qid_shape[1])
    ELSE 1

\* The control shape of a constructor call r: given, or two-level controls.
OuterShape(r) ==
    IF r.control_qid_shape # NoneVal THEN r.control_qid_shape[1]
    ELSE Repeat(2, DeclaredOrInferred(r))

\* The values control i accepts under the control_values argument v.
AcceptedAt(v, i) ==
    IF v.tag = "None" THEN {1}
    ELSE IF v.tag = "SumOfProducts" THEN {t[i] : t \in v.conj}
    ELSE v.sums[i]

\* The assignments of n controls that satisfy the control_values argument v.
Satisfying(v, n) ==
    IF v.tag = "SumOfProducts" THEN v.conj
    ELSE {t \in Tuples(0..2, n) : \A i \in 1..n : t[i] \in AcceptedAt(v, i)}

\* The assignments that satisfy the control values of an entity.
Enabling(g) == Satisfying(g.control_values, NumControls(g))

\* C1: a constructor call whose sub-gate is a Controlled-Gate (c1, v1, g)
\* returns, for outer controls (c2, v2), the entity with control_qid_shape
\* c2 ++ c1, control values v2 & v1 (the outer assignments followed by the
\* inner ones; per-control sets concatenated when both are products),
\* len(c2) + len(c1) controls, and sub-gate g.
Flattening ==
    (Returned("construct") /\ IsControlledGate(res.sub_gate)
        /\ IsControlledGate(res.out)) =>
    LET inner == res.sub_gate
        c2 == OuterShape(res)
        v2 == res.control_values
        product == v2.tag # "SumOfProducts" \/ Cardinality(v2.conj) = 1
    IN  /\ res.out.control_qid_shape = c2 \o inner.control_qid_shape
        /\ NumControls(res.out) = Len(c2) + Len(inner.control_qid_shape)
        /\ res.out.sub_gate = inner.sub_gate
        /\ Enabling(res.out) =
              {x \o y : x \in Satisfying(v2, Len(c2)), y \in Enabling(inner)}
        /\ (product /\ inner.control_values.tag = "ProductOfSums") =>
              /\ res.out.control_values.tag = "ProductOfSums"
              /\ res.out.control_values.sums =
                    [i \in 1..Len(c2) |-> AcceptedAt(v2, i)]
                        \o inner.control_values.sums

\* A three-level outer control was put before a two-level inner control.
FlatteningWitness ==
    /\ Returned("construct")
    /\ IsControlledGate(res.sub_gate)
    /\ IsControlledGate(res.out)
    /\ res.sub_gate.control_qid_shape = <<2>>
    /\ res.sub_gate.control_values = ProductOfSums(<<{0}>>)
    /\ res.out.control_qid_shape = <<3, 2>>
    /\ res.out.control_values = ProductOfSums(<<{2}, {0}>>)

\* C2: a constructor call whose num_controls (declared, else inferred)
\* differs from the number of controls of its control_values, or from the
\* length of its control_qid_shape, or one of whose accepted control values
\* is outside [0, control_qid_shape[i]), returns no entity: the call itself
\* raises the validation error.
ConstructionValidation ==
    Returned("construct") =>
    LET n == DeclaredOrInferred(res)
        v == res.control_values
        shape == OuterShape(res)
        count == IF v.tag = "None" THEN n ELSE GivenCount(v)
        outOfRange ==
            \E i \in 1..count :
                /\ i <= Len(shape)
                /\ \E x \in AcceptedAt(v, i) : x < 0 \/ x >= shape[i]
    IN  (n # count \/ Len(shape) # n \/ outOfRange) =>
            /\ IsError(res.out)
            /\ ~IsControlledGate(res.out)

\* A call for a valid sub-gate that accepts the value 2 on a two-level control
\* failed.
ConstructionValidationWitness ==
    /\ Returned("construct")
    /\ res.sub_gate = Base("Rot")
    /\ res.num_controls = Some(1)
    /\ res.control_values = ProductOfSums(<<{2}>>)
    /\ res.control_qid_shape = Some(<<2>>)
    /\ IsError(res.out)

\* The entities that exist in a state.
Entities ==
    {g \in {gate}
            \cup (IF pc = "returned" /\ res.op \in {"construct", "pow", "resolve"}
                  THEN {res.out} ELSE {})
            \cup (IF pc = "returned" /\ res.op = "construct"
                  THEN {res.sub_gate} ELSE {})
            \cup (IF pc = "returned" /\ res.op \in {"pow", "resolve", "on", "decompose"}
                  THEN {res.self} ELSE {})
            \cup (IF pc = "returned" /\ res.op = "decompose"
                     /\ res.out.kind = "op_tree"
                  THEN {OperationGate(res.out.ops[k]) : k \in 1..Len(res.out.ops)}
                  ELSE {}) :
        IsControlledGate(g)}

\* C8: the sub-gate of every existing Controlled-Gate is not a
\* Controlled-Gate, whichever constructions (direct, wrapping an entity,
\* exponentiation, parameter resolution) produced it.
SingleLevelNesting == \A g \in Entities : ~IsControlledGate(g.sub_gate)

\* An entity with a control of its own was wrapped with one more control.
SingleLevelNestingWitness ==
    /\ Returned("construct")
    /\ IsControlledGate(res.sub_gate)
    /\ NumControls(res.sub_gate) = 1
    /\ IsControlledGate(res.out)
    /\ NumControls(res.out) = 2
    /\ res.out.sub_gate = Base("GlobalPhase")

\* C7: applying an entity to no qudits fails with the empty-application
\* error, whatever the entity; an application to one or more qudits that
\* succeeds was given exactly num_controls + qudits(sub_gate) qudits, binds the
\* first num_controls of them as controls and the rest, in order, to the
\* sub-gate, and carries the entity's control values.
Application ==
    Returned("on") =>
    LET self == res.self
        n == NumControls(self)
        m == Len(QidShape(self.sub_gate))
    IN  /\ Len(res.qubits) = 0 =>
              res.out = ValueError("Applied a gate to an empty set of qubits")
        /\ (Len(res.qubits) > 0 /\ ~IsError(res.out)) =>
              /\ Len(res.qubits) = n + m
              /\ res.out.kind = "controlled_op"
              /\ res.out.controls = [i \in 1..n |-> res.qubits[i]]
              /\ res.out.sub_operation.gate = self.sub_gate
              /\ res.out.sub_operation.qubits = [i \in 1..m |-> res.qubits[n + i]]
              /\ res.out.control_values = self.control_values

\* An entity with no control and a zero-qudit sub-gate was applied to no qudits.
ApplicationWitness ==
    /\ Returned("on")
    /\ NumControls(res.self) = 0
    /\ res.self.sub_gate = Base("GlobalPhase")
    /\ res.qubits = <<>>
    /\ IsError(res.out)

\* C9: exponentiation and parameter resolution return a Controlled-Gate with
\* the control values, control shape and number of controls of the original
\* and the sub-gate's own result as sub-gate, and leave the original as it
\* was; when the sub-gate's exponentiation is unsupported, __pow__ returns
\* NotImplemented.
OnlySubGateChanges ==
    /\ Returned("pow") =>
          LET new_sub_gate == ProtocolPow(res.self.sub_gate, res.exponent)
          IN  /\ gate = res.self
              /\ IF new_sub_gate = NotImplemented
                 THEN res.out = NotImplemented
                 ELSE /\ IsControlledGate(res.out)
                      /\ res.out.sub_gate = new_sub_gate
                      /\ res.out.control_values = res.self.control_values
                      /\ res.out.control_qid_shape = res.self.control_qid_shape
                      /\ NumControls(res.out) = NumControls(res.self)
    /\ Returned("resolve") =>
          /\ gate = res.self
          /\ IsControlledGate(res.out)
          /\ res.out.sub_gate = ProtocolResolve(res.self.sub_gate, res.binds)
          /\ res.out.control_values = res.self.control_values
          /\ res.out.control_qid_shape = res.self.control_qid_shape
          /\ NumControls(res.out) = NumControls(res.self)

\* An entity with controls other than the default was raised to a power.
OnlySubGateChangesWitness ==
    /\ Returned("pow")
    /\ res.self.control_values = ProductOfSums(<<{0}, {0, 1}>>)
    /\ res.self.control_qid_shape = <<2, 3>>
    /\ res.self.sub_gate = Base("Rot")
    /\ IsControlledGate(res.out)
    /\ res.out.sub_gate.exp = -1

\* The last call decomposed an entity by synthesising a rotation.
MatrixLevelRotation ==
    /\ Returned("decompose")
    /\ res.out.kind = "op_tree"
    /\ \E k \in 1..Len(res.out.ops) : res.out.ops[k].kind = "mcr"

\* The position of the synthesis primitive's output in the result.
McrAt == CHOOSE k \in 1..Len(res.out.ops) : res.out.ops[k].kind = "mcr"

InSeq(x, t) == \E k \in 1..Len(t) : t[k] = x

\* The control qudits of the decomposed entity, in order.
ControlQudits == [i \in 1..NumControls(res.self) |-> res.qubits[i]]

\* Control i has a bit-flip before and after the synthesised operations.
Sandwiched(i) ==
    /\ \E k \in 1..(McrAt - 1) : res.out.ops[k] = XOp(ControlQudits[i])
    /\ \E k \in (McrAt + 1)..Len(res.out.ops) : res.out.ops[k] = XOp(ControlQudits[i])

\* C3 as stated: the primitive's control list holds exactly the controls that
\* accept {1}; a control that accepts {0} is flipped before and after and is
\* not passed to the primitive.
SynthesisControlsAcceptOne ==
    MatrixLevelRotation =>
    \A i \in 1..NumControls(res.self) :
        LET accepted == res.self.control_values.sums[i]
            passed == InSeq(ControlQudits[i], res.out.ops[McrAt].controls)
        IN  /\ passed <=> accepted = {1}
            /\ accepted = {0} => (Sandwiched(i) /\ ~passed)

\* C3 amended: the primitive's control list holds exactly the controls whose
\* accepted set is not the full domain {0, 1}; a control that accepts {0} is
\* flipped before and after and is passed to the primitive as a control.
SynthesisControlsConstrained ==
    MatrixLevelRotation =>
    \A i \in 1..NumControls(res.self) :
        LET accepted == res.self.control_values.sums[i]
            passed == InSeq(ControlQudits[i], res.out.ops[McrAt].controls)
        IN  /\ passed <=> accepted # {0, 1}
            /\ accepted = {0} => (Sandwiched(i) /\ passed)

\* A rotation controlled on 0 by one qudit and on 1 by another was decomposed.
SynthesisControlsWitness ==
    /\ MatrixLevelRotation
    /\ res.self.sub_gate = Base("Rot")
    /\ res.self.control_values = ProductOfSums(<<{0}, {1}>>)
    /\ Len(res.out.ops[McrAt].controls) = 2

\* The positions of the controls that accept exactly {0}.
OnZero == {i \in 1..NumControls(res.self) : res.self.control_values.sums[i] = {0}}

\* The j-th control, in control order, that accepts exactly {0}.
NthOnZero(j) ==
    CHOOSE i \in OnZero : Cardinality({h \in OnZero : h <= i}) = j

\* C10: the matrix-level decomposition of a single-qubit sub-gate returns
\* F ++ S ++ F: F one X per control accepting exactly {0}, in control order,
\* the same before and after; S the primitive's output for the sub-gate's
\* unitary with the last qudit as target.  A control accepting {0, 1} is not
\* in the primitive's control list and gets no flip, and is still a control of
\* the entity.
FlipSandwich ==
    MatrixLevelRotation =>
    LET ops == res.out.ops
        f == Cardinality(OnZero)
        sums == res.self.control_values.sums
    IN  /\ Len(ops) = 2 * f + 1
        /\ McrAt = f + 1
        /\ \A j \in 1..f :
              /\ ops[j] = XOp(ControlQudits[NthOnZero(j)])
              /\ ops[f + 1 + j] = ops[j]
        /\ ops[McrAt].matrix = res.self.sub_gate
        /\ ops[McrAt].target = res.qubits[Len(res.qubits)]
        /\ Len(sums) = NumControls(res.self)
        /\ \A i \in 1..NumControls(res.self) :
              sums[i] = {0, 1} =>
                  /\ ~InSeq(ControlQudits[i], ops[McrAt].controls)
                  /\ \A k \in 1..Len(ops) : ops[k] # XOp(ControlQudits[i])
                  /\ res.self.control_qid_shape[i] = 2

\* A rotation with a control on 0 and a don't-care control, in that order, on
\* a line of qudits numbered downwards, was decomposed.
FlipSandwichWitness ==
    /\ MatrixLevelRotation
    /\ res.self.control_values = ProductOfSums(<<{0}, {0, 1}>>)
    /\ Len(res.out.ops) = 3
    /\ res.qubits[1].x > res.qubits[2].x

\* The last call decomposed an entity into one diagonal-phase gate.
MatrixLevelPhase ==
    /\ Returned("decompose")
    /\ res.out.kind = "op_tree"
    /\ \E k \in 1..Len(res.out.ops) :
          /\ res.out.ops[k].kind = "op"
          /\ res.out.ops[k].gate.kind = "DiagonalGate"

\* All assignments of qudits of the given dimensions.
Assignments(shape) ==
    {a \in Tuples(0..2, Len(shape)) : \A i \in 1..Len(shape) : a[i] < shape[i]}

\* a comes before b in row-major (lexicographic) order.
Before(a, b) ==
    \E i \in 1..Len(a) : a[i] < b[i] /\ \A h \in 1..(i - 1) : a[h] = b[h]

\* C6: the matrix-level decomposition of a zero-qudit sub-gate of phase angle
\* theta is one diagonal gate on all the control qudits; its angle list has
\* one entry per assignment of the controls, in row-major order: theta for the
\* assignments that satisfy the control values, 0 for the others.  One
\* control accepting {1} gives [0, theta].
PhaseDiagonal ==
    MatrixLevelPhase =>
    LET self == res.self
        shape == self.control_qid_shape
        theta == self.sub_gate.exp
        angles == res.out.ops[1].gate.diag_angles_radians
        all == Assignments(shape)
    IN  /\ Len(res.out.ops) = 1
        /\ res.out.ops[1].qubits = ControlQudits
        /\ Len(angles) = Cardinality(all)
        /\ \A a \in all :
              angles[Cardinality({b \in all : Before(b, a)}) + 1] =
                  (IF a \in Enabling(self) THEN theta ELSE 0)
        /\ (shape = <<2>> /\ self.control_values = ProductOfSums(<<{1}>>)) =>
              angles = <<0, theta>>

\* A phase controlled on 1 by one qudit and on 0 by the next was decomposed.
PhaseDiagonalWitness ==
    /\ MatrixLevelPhase
    /\ res.self.sub_gate = Base("GlobalPhase")
    /\ res.self.control_values = ProductOfSums(<<{1}, {0}>>)
    /\ res.out.ops[1].gate.diag_angles_radians = <<0, 0, 1, 0>>

\* C4: decomposition returns the result of the first branch that applies:
\* (1) the sub-gate's own controlled form on all the qudits, when that form is
\* not the entity itself; (2) the sub-gate's own decomposition over the target
\* qudits, each operation controlled by the same control qudits and control
\* values; (3) matrix-level synthesis, only for a sub-gate with a unitary and
\* qudits that are all two-level.  It returns NotImplemented exactly when no
\* branch applies, and never an error.
OrderedFallback ==
    Returned("decompose") =>
    LET self == res.self
        n == NumControls(self)
        targets == [i \in 1..(Len(res.qubits) - n) |-> res.qubits[n + i]]
        form == GateControlled(self.sub_gate, n, self.control_values,
                               self.control_qid_shape)
        native == form # self
        own == DecomposeOnce(self.sub_gate, targets)
        matrix == /\ HasUnitary(self.sub_gate)
                  /\ \A i \in 1..Len(res.qubits) : res.qubits[i].dimension = 2
        width == Len(QidShape(self.sub_gate))
        synth == /\ matrix
                 /\ \/ width = 0
                    \/ width = 1 /\ self.control_values.tag = "ProductOfSums"
    IN  /\ res.out.kind \in {"op_tree", "NotImplemented"}
        /\ native => res.out = OpTree(<<Op(form, res.qubits)>>)
        /\ (~native /\ own # NotImplemented) =>
              /\ res.out.kind = "op_tree"
              /\ Len(res.out.ops) = Len(own.ops)
              /\ \A k \in 1..Len(own.ops) :
                    res.out.ops[k] =
                        ControlledOperation(ControlQudits, own.ops[k],
                                            self.control_values)
        /\ (~native /\ own = NotImplemented /\ synth) =>
              (IF width = 0 THEN MatrixLevelPhase ELSE MatrixLevelRotation)
        /\ (MatrixLevelPhase \/ MatrixLevelRotation) => matrix
        /\ res.out = NotImplemented <=>
              (~native /\ own = NotImplemented /\ ~synth)
        /\ (~native /\ own = NotImplemented /\ matrix /\ width >= 2) =>
              res.out = NotImplemented
        /\ (~native /\ own = NotImplemented /\ matrix /\ width = 1
                /\ self.control_values.tag = "SumOfProducts") =>
              res.out = NotImplemented

\* A sub-gate with a unitary and a decomposition of its own, under two-level
\* controls, was decomposed through its own decomposition.
OrderedFallbackWitness ==
    /\ Returned("decompose")
    /\ res.self.sub_gate = Base("Comp")
    /\ res.self.control_qid_shape = <<2, 2>>
    /\ res.out.kind = "op_tree"
    /\ Len(res.out.ops) = 2
    /\ res.out.ops[2].kind = "controlled_op"

\* A decomposition never returns, as the operation of the sub-gate's
\* controlled form, an operation whose gate is the decomposed entity.
NoSelfReturn ==
    (Returned("decompose") /\ res.out.kind = "op_tree") =>
    \A k \in 1..Len(res.out.ops) :
        res.out.ops[k].kind = "op" => res.out.ops[k].gate # res.self

\* C5: repeated decomposition does not loop: no decomposition returns the
\* entity's own gate, and decomposing, taking an operation of the result with
\* its controls and decomposing again reaches a result with nothing left to
\* decompose (elementary operations or NotImplemented).
DecompositionEnds ==
    /\ []NoSelfReturn
    /\ <>(Returned("decompose") /\ Terminal(res.out))

\* A result was decomposed again, its sub-gate's controlled form being the
\* entity itself, and gave elementary operations.
DecompositionEndsWitness ==
    /\ Returned("decompose")
    /\ chain = 1
    /\ GateControlled(res.self.sub_gate, NumControls(res.self),
                      res.self.control_values, res.self.control_qid_shape) = res.self
    /\ Terminal(res.out)
    /\ res.out # NotImplemented

====
